---------------------------- MODULE Spec2Model ----------------------------
(***************************************************************************)
(* A model of the GitLab MCP server: the process-wide configuration store  *)
(* of server/config.py and the tool functions of server/mcp_tools, each    *)
(* of which builds one request from the store, sends it and turns the      *)
(* remote's answer into its return value.                                  *)
(*                                                                         *)
(* Python values are records [ty, v, m]: ty is the Python type, v the      *)
(* text of a scalar, m the members of a decoded JSON container (triples    *)
(* <<key, type, text>>, one level deep, which is as far as any handler     *)
(* looks).  A dict a handler builds itself is a TLA+ record of such values.*)
(***************************************************************************)
EXTENDS Naturals, Sequences, FiniteSets, TLC

VARIABLES
    config,     \* server/config.py _config: [api_url, token]
    call,       \* the operation called last and its arguments
    request,    \* the outbound HTTP request that call built (sent or not)
    outcome,    \* what the transport gave back for that request
    result,     \* what the call returned, or the exception that escaped it
    pc,         \* "idle", "waiting": the call is blocked in its HTTP request, or
                \* "answered": the HTTP call is back and the handler has yet to return
    repeated,   \* history: the configuration call repeats the previous call
    emptyTokenConfigured,
                \* history: configure_gitlab was called with an empty token and no
                \* non-empty token has been configured since
    threads     \* two calls running at once: where each is, and its locals

vars == <<config, call, request, outcome, result, pc, repeated, emptyTokenConfigured,
          threads>>

---------------------------------------------------------------------------
(* Bounds of the model *)

\* how many distinct non-empty API URLs the environment and callers use
NumUrls == 2
\* how many distinct non-empty tokens the environment and callers use
NumTokens == 2

---------------------------------------------------------------------------
(* Python values *)

None == [ty |-> "NoneType", v |-> "", m |-> {}]
\* a parameter the caller did not pass: the function's default applies
Absent == [ty |-> "absent", v |-> "", m |-> {}]
Str(s) == [ty |-> "str", v |-> s, m |-> {}]
Bool(b) == [ty |-> "bool", v |-> IF b THEN "True" ELSE "False", m |-> {}]

\* Python truth value of a value: None, "", False, 0, {} and [] are false
Truthy(x) ==
    CASE x.ty = "NoneType" -> FALSE
      [] x.ty = "str" -> x.v # ""
      [] x.ty = "bytes" -> x.v # ""
      [] x.ty = "bool" -> x.v = "True"
      [] x.ty = "int" -> x.v # "0"
      [] x.ty \in {"dict", "list"} -> x.m # {}
      [] OTHER -> TRUE

\* Python `a and b`: a when a is false, else b
PyAnd(a, b) == IF Truthy(a) THEN b ELSE a
\* Python `a or b`: a when a is true, else b
PyOr(a, b) == IF Truthy(a) THEN a ELSE b

\* the value a parameter is bound to: the default when the caller passed nothing
Bind(arg, default) == IF arg = Absent THEN default ELSE arg

---------------------------------------------------------------------------
(* What a call leaves behind *)

\* no request was built (a configuration call, or a handler that stopped before)
NoRequest == [sent |-> FALSE, n |-> 0, method |-> "", url |-> <<>>, headers |-> {},
              params |-> {}, enc |-> "none", body |-> {}]
\* no request was sent, so the transport gave nothing back
NoOutcome == [kind |-> "none", status |-> 0, text |-> ""]

\* a call returned the dict d it built
ReturnDict(d) == [kind |-> "dict", exc |-> "", val |-> None, d |-> d]
\* a call returned the Python value v (a decoded body, a message, bytes, None)
ReturnValue(v) == [kind |-> "value", exc |-> "", val |-> v, d |-> <<>>]
\* the exception exc escaped the call
Raise(exc) == [kind |-> "raise", exc |-> exc, val |-> None, d |-> <<>>]
\* the call has not returned yet
Pending == [kind |-> "pending", exc |-> "", val |-> None, d |-> <<>>]

---------------------------------------------------------------------------
(* server/config.py *)

DefaultApiUrl == "https://gitlab.com/api/v4"

UrlPool == << DefaultApiUrl, "https://gitlab.example.com/api/v4",
              "http://localhost:8080/api/v4", "https://git.corp/api/v4" >>
TokenPool == << "glpat-A", "glpat-B", "glpat-C", "glpat-D" >>

ApiUrls == {""} \cup {UrlPool[i] : i \in 1..NumUrls}
Tokens == {""} \cup {TokenPool[i] : i \in 1..NumTokens}

\* _config as the module is imported: the two environment variables, "" when unset
InitConfig == [api_url : ApiUrls, token : Tokens]

get_gitlab_api(c) == c.api_url

get_gitlab_token(c) == c.token

is_configured_or(c) == Truthy(PyOr(Str(c.api_url), Str(c.token)))

is_configured(c) == Truthy(PyAnd(Str(c.api_url), Str(c.token)))

set_gitlab_config_not_none(c, api_url, token) ==
    [api_url |-> IF api_url # None THEN api_url.v ELSE c.api_url,
     token |-> IF token # None THEN token.v ELSE c.token]

\* a set_gitlab_config that would test only the api_url for truth
set_gitlab_config_token_not_none(c, api_url, token) ==
    [api_url |-> IF Truthy(api_url) THEN api_url.v ELSE c.api_url,
     token |-> IF token # None THEN token.v ELSE c.token]

set_gitlab_config(c, api_url, token) ==
    [api_url |-> IF Truthy(api_url) THEN api_url.v ELSE c.api_url,
     token |-> IF Truthy(token) THEN token.v ELSE c.token]

TokenRequired ==
    [error |-> Str("Token is required"),
     message |-> Str("Please provide your GitLab Personal Access Token.")]

Configured(api_url) ==
    [status |-> Str("configured"),
     api_url |-> api_url,
     message |-> Str("GitLab credentials configured successfully.")]

\* configure_gitlab with its parameters bound: the store and the dict it returns
configure_gitlab_stale_echo(c, api_url, token) ==
    IF ~Truthy(token)
    THEN [config |-> c, ret |-> TokenRequired]
    ELSE [config |-> set_gitlab_config(c, api_url, token),
          ret |-> Configured(Str(get_gitlab_api(c)))]

configure_gitlab_set_first(c, api_url, token) ==
    IF ~Truthy(token)
    THEN [config |-> set_gitlab_config(c, api_url, token), ret |-> TokenRequired]
    ELSE [config |-> set_gitlab_config(c, api_url, token),
          ret |-> Configured(api_url)]

\* a configure_gitlab that would store an empty token, and so clear the credential
configure_gitlab_clear_token(c, api_url, token) ==
    IF ~Truthy(token)
    THEN [config |-> [c EXCEPT !.token = ""], ret |-> TokenRequired]
    ELSE [config |-> set_gitlab_config(c, api_url, token),
          ret |-> Configured(api_url)]

configure_gitlab(c, api_url, token) ==
    IF ~Truthy(token)
    THEN [config |-> c, ret |-> TokenRequired]
    ELSE [config |-> set_gitlab_config(c, api_url, token),
          ret |-> Configured(api_url)]

check_gitlab_config_leaky(c) ==
    [configured |-> Bool(is_configured(c)),
     api_url |-> PyOr(Str(c.api_url), Str("(not set)")),
     token_set |-> PyOr(Str(c.token), Bool(FALSE)),
     message |-> IF is_configured(c)
                 THEN Str("Ready to use GitLab tools.")
                 ELSE Str("Please run configure_gitlab with your token first.")]

check_gitlab_config(c) ==
    [configured |-> Bool(is_configured(c)),
     api_url |-> PyOr(Str(c.api_url), Str("(not set)")),
     token_set |-> Bool(Truthy(Str(c.token))),
     message |-> IF is_configured(c)
                 THEN Str("Ready to use GitLab tools.")
                 ELSE Str("Please run configure_gitlab with your token first.")]

---------------------------------------------------------------------------
(* The remote, and the requests library as the handlers use it *)

Int(n) == [ty |-> "int", v |-> n, m |-> {}]
Bytes(s) == [ty |-> "bytes", v |-> s, m |-> {}]
Dict(members) == [ty |-> "dict", v |-> "", m |-> members]
List(members) == [ty |-> "list", v |-> "", m |-> members]

\* the status codes the remote answers with
Statuses == {200, 201, 202, 204, 304, 404, 500}

\* the response bodies the remote answers with
BodyEmpty == ""
BodyHtml == "<html>502 Bad Gateway</html>"
BodyEmptyObject == "{}"
BodyNoSignature == "{\"message\":\"404 GPG Signature Not Found\"}"
BodyValidation == "{\"message\":{\"name\":[\"has already been taken\"]}}"
BodyConflict == "{\"message\":\"Sorry, we cannot cherry-pick\",\"error_code\":\"conflict\"}"
BodyOAuthError == "{\"error\":\"invalid_token\"}"
BodyResource == "{\"id\":7,\"name\":\"demo\"}"
BodyEmptyArray == "[]"
BodyArray == "[{\"name\":\"main\"}]"
BodyNull == "null"

Bodies == {BodyEmpty, BodyHtml, BodyEmptyObject, BodyNoSignature,
           BodyValidation, BodyConflict, BodyOAuthError, BodyResource,
           BodyEmptyArray, BodyArray, BodyNull}

\* what one request can end in: no response at all, or a status and a body
Outcomes ==
    {[kind |-> "transport", status |-> 0, text |-> ""]}
    \cup {[kind |-> "response", status |-> st, text |-> b] : st \in Statuses, b \in Bodies}

\* json.loads on a response body: the decoded Python value, or the decode failure
json_loads(text) ==
    CASE text = BodyEmptyObject -> [ok |-> TRUE, val |-> Dict({})]
      [] text = BodyNoSignature ->
            [ok |-> TRUE, val |-> Dict({<<"message", "str", "404 GPG Signature Not Found">>})]
      [] text = BodyValidation ->
            [ok |-> TRUE,
             val |-> Dict({<<"message", "dict", "{\"name\":[\"has already been taken\"]}">>})]
      [] text = BodyConflict ->
            [ok |-> TRUE, val |-> Dict({<<"message", "str", "Sorry, we cannot cherry-pick">>,
                                        <<"error_code", "str", "conflict">>})]
      [] text = BodyOAuthError ->
            [ok |-> TRUE, val |-> Dict({<<"error", "str", "invalid_token">>})]
      [] text = BodyResource ->
            [ok |-> TRUE, val |-> Dict({<<"id", "int", "7">>, <<"name", "str", "demo">>})]
      [] text = BodyEmptyArray -> [ok |-> TRUE, val |-> List({})]
      [] text = BodyArray -> [ok |-> TRUE, val |-> List({<<"0", "dict", "{\"name\":\"main\"}">>})]
      [] text = BodyNull -> [ok |-> TRUE, val |-> None]
      [] OTHER -> [ok |-> FALSE, val |-> None]

\* response.json() of requests
response_json(o) == json_loads(o.text)

\* response.raise_for_status() of requests raises HTTPError for 4xx and 5xx only
raise_for_status(o) == o.status >= 400 /\ o.status < 600

\* `key in d` and d.get(key, default) on a decoded dict
HasKey(d, key) == \E t \in d.m : t[1] = key
DictGet(d, key, default) ==
    IF HasKey(d, key)
    THEN LET t == CHOOSE t \in d.m : t[1] = key
         IN [ty |-> t[2], v |-> t[3], m |-> {}]
    ELSE default

\* str.lower() on the messages the remote sends
Lower(s) ==
    CASE s = "404 GPG Signature Not Found" -> "404 gpg signature not found"
      [] s = "Sorry, we cannot cherry-pick" -> "sorry, we cannot cherry-pick"
      [] OTHER -> s

\* str(e) of the HTTPError raise_for_status raised
HTTPErrorStr(o) ==
    ToString(o.status) \o (IF o.status < 500 THEN " Client Error" ELSE " Server Error")

\* str(e) of the other RequestExceptions a handler meets
ConnectionErrorStr == "HTTPConnectionPool: Max retries exceeded"
JSONDecodeErrorStr == "Expecting value: line 1 column 1 (char 0)"

\* a RequestException block that would put the description under `details`
NetworkRequestError_with_details(e) ==
    ReturnDict([error |-> Str("Network/Request Error"), details |-> Str(e)])

\* the handlers' `except requests.exceptions.RequestException` block
NetworkRequestError(e) == ReturnDict([error |-> Str("Network/Request Error: " \o e)])

\* the HTTPError block of the download tools: the raw text as details
HTTPErrorTextOnly(o) ==
    ReturnDict([error |-> Str(HTTPErrorStr(o)), details |-> Str(o.text)])

\* an HTTPError block that would never decode the body
HTTPErrorDetails_text_always(o) ==
    ReturnDict([error |-> Str(HTTPErrorStr(o)), details |-> Str(o.text)])

\* an HTTPError block that would keep nothing of a body that is no JSON
HTTPErrorDetails_drop_text(o) ==
    LET j == response_json(o)
    IN ReturnDict([error |-> Str(HTTPErrorStr(o)), details |-> j.val])

\* the handlers' `except requests.exceptions.HTTPError` block: the decoded body as
\* details, or the raw text when the body is no JSON
HTTPErrorDetails(o) ==
    LET j == response_json(o)
    IN IF j.ok
       THEN ReturnDict([error |-> Str(HTTPErrorStr(o)), details |-> j.val])
       ELSE ReturnDict([error |-> Str(HTTPErrorStr(o)), details |-> Str(o.text)])

\* a success path that would hand the body on undecoded
ReturnJson_as_text(o) == ReturnValue(Str(o.text))

\* `return response.json()` inside the try block: the JSONDecodeError of requests
\* is a RequestException, so a body that is no JSON ends in that except block
ReturnJson(o) ==
    LET j == response_json(o)
    IN IF j.ok THEN ReturnValue(j.val) ELSE NetworkRequestError(JSONDecodeErrorStr)

\* an f-string's rendering of a value put into a URL
Fmt(x) == IF x.ty = "NoneType" THEN "None" ELSE x.v

\* the project identifiers the callers pass: a numeric id, a URL-encoded path
ProjectIds == {Int("7"), Str("group%2Fproject")}
\* the one project the calls of the tools other than gitlab_list_branches are about
OneProject == {Int("7")}

\* a request sent with the `requests` module
Request(method, url, headers, params, enc, body) ==
    [sent |-> TRUE, n |-> 1, method |-> method, url |-> url, headers |-> headers,
     params |-> params, enc |-> enc, body |-> body]

---------------------------------------------------------------------------
(* server/mcp_tools/branch_tools.py *)

OptFilter == {None, Str(""), Str("^feat")}
ListBranchesArgs ==
    {a \in [project_id : ProjectIds, regex : OptFilter, search : OptFilter] :
        a.project_id = Int("7") \/ (a.regex = None /\ a.search = None)}

\* gitlab_list_branches up to requests.get: the URL, the header, the one filter
gitlab_list_branches_request(c, a) ==
    Request("GET",
            get_gitlab_api(c) \o "/projects/" \o Fmt(a.project_id) \o "/repository/branches",
            {<<"PRIVATE-TOKEN", get_gitlab_token(c)>>},
            IF Truthy(a.regex) THEN {<<"regex", a.regex>>}
            ELSE IF Truthy(a.search) THEN {<<"search", a.search>>}
            ELSE {},
            "none", {})

\* gitlab_list_branches from the answer on: the try block and its two except blocks
gitlab_list_branches(a, o) ==
    IF o.kind = "transport" THEN NetworkRequestError(ConnectionErrorStr)
    ELSE IF raise_for_status(o) THEN HTTPErrorDetails(o)
    ELSE ReturnJson(o)

---------------------------------------------------------------------------
(* server/mcp_tools/issue_tools.py *)

DeleteIssueArgs == [project_id : OneProject, issue_iid : {Int("3")}]

delete_issue_request(c, a) ==
    Request("DELETE",
            get_gitlab_api(c) \o "/projects/" \o Fmt(a.project_id)
                \o "/issues/" \o Fmt(a.issue_iid),
            {<<"PRIVATE-TOKEN", get_gitlab_token(c)>>},
            {}, "none", {})

delete_issue(a, o) ==
    IF o.kind = "transport" THEN NetworkRequestError(ConnectionErrorStr)
    ELSE IF raise_for_status(o) THEN HTTPErrorDetails(o)
    ELSE ReturnDict([status |-> Str("success"),
                     message |-> Str("Issue " \o Fmt(a.issue_iid) \o " deleted successfully.")])

---------------------------------------------------------------------------
(* server/mcp_tools/commit_tools.py *)

\* the header set of the tools that send the token only when there is one
TokenHeader(c) ==
    IF Truthy(Str(get_gitlab_token(c)))
    THEN {<<"PRIVATE-TOKEN", get_gitlab_token(c)>>}
    ELSE {}

CommitSignatureArgs == [project_id : OneProject, sha : {Str("main")}]

get_gitlab_commit_signature_request(c, a) ==
    Request("GET",
            get_gitlab_api(c) \o "/projects/" \o Fmt(a.project_id)
                \o "/repository/commits/" \o Fmt(a.sha) \o "/signature",
            TokenHeader(c), {}, "none", {})

\* the HTTPError block of get_gitlab_commit_signature calls .get on the decoded
\* body and .lower() on its message when the status is 404
get_gitlab_commit_signature(a, o) ==
    IF o.kind = "transport" THEN NetworkRequestError(ConnectionErrorStr)
    ELSE IF raise_for_status(o)
    THEN LET j == response_json(o)
         IN IF ~j.ok THEN HTTPErrorTextOnly(o)
            ELSE IF o.status # 404 THEN HTTPErrorDetails(o)
            ELSE IF j.val.ty # "dict"
            THEN Raise("AttributeError: object has no attribute 'get'")
            ELSE IF DictGet(j.val, "message", Str("")).ty # "str"
            THEN Raise("AttributeError: object has no attribute 'lower'")
            ELSE IF Lower(DictGet(j.val, "message", Str("")).v) = "404 gpg signature not found"
            THEN ReturnDict([error |-> Str("Commit signature not found (Commit is likely unsigned)."),
                             details |-> j.val])
            ELSE HTTPErrorDetails(o)
    ELSE ReturnJson(o)

CherryPickArgs == [project_id : OneProject, sha : {Str("main")}, branch : {Str("stable")},
                   dry_run : {None, Bool(TRUE), Bool(FALSE)}, message : {None}]

\* str(x).lower() of a bool
StrLower(x) == IF x.v = "True" THEN "true" ELSE "false"

cherry_pick_gitlab_commit_request(c, a) ==
    Request("POST",
            get_gitlab_api(c) \o "/projects/" \o Fmt(a.project_id)
                \o "/repository/commits/" \o Fmt(a.sha) \o "/cherry_pick",
            {<<"Content-Type", "application/json">>} \cup TokenHeader(c),
            {}, "json",
            {<<"branch", a.branch>>}
              \cup (IF a.dry_run # None THEN {<<"dry_run", Str(StrLower(a.dry_run))>>} ELSE {})
              \cup (IF a.message # None THEN {<<"message", a.message>>} ELSE {}))

\* the HTTPError block of cherry_pick_gitlab_commit tests `'error_code' in
\* error_details`, which needs a container, and reshapes a body that has a
\* message or an error_code
cherry_pick_gitlab_commit(a, o) ==
    IF o.kind = "transport" THEN NetworkRequestError(ConnectionErrorStr)
    ELSE IF o.status = 201 THEN ReturnJson(o)
    ELSE IF o.status = 200 /\ Truthy(a.dry_run) THEN ReturnJson(o)
    ELSE IF raise_for_status(o)
    THEN LET j == response_json(o)
         IN IF ~j.ok THEN HTTPErrorTextOnly(o)
            ELSE IF j.val.ty \notin {"dict", "list", "str"}
            THEN Raise("TypeError: argument is not iterable")
            ELSE IF j.val.ty = "dict" /\ (HasKey(j.val, "error_code") \/ HasKey(j.val, "message"))
            THEN ReturnDict([error |-> DictGet(j.val, "message", Str(HTTPErrorStr(o))),
                             error_code |-> DictGet(j.val, "error_code", Str("unknown_api_error"))])
            ELSE HTTPErrorDetails(o)
    ELSE ReturnJson(o)

---------------------------------------------------------------------------
(* server/mcp_tools/project_tools.py *)

ImportMembersArgs == [target_project_id : OneProject, source_project_id : {Int("9")}]

import_project_members_request(c, a) ==
    Request("POST",
            get_gitlab_api(c) \o "/projects/" \o Fmt(a.target_project_id)
                \o "/import_project_members/" \o Fmt(a.source_project_id),
            {<<"PRIVATE-TOKEN", get_gitlab_token(c)>>, <<"Content-Type", "application/json">>},
            {}, "none", {})

\* the success path of import_project_members calls .get on the decoded body
import_project_members(a, o) ==
    IF o.kind = "transport" THEN NetworkRequestError(ConnectionErrorStr)
    ELSE IF raise_for_status(o) THEN HTTPErrorDetails(o)
    ELSE LET j == response_json(o)
         IN IF ~j.ok THEN NetworkRequestError(JSONDecodeErrorStr)
            ELSE IF j.val.ty # "dict"
            THEN Raise("AttributeError: object has no attribute 'get'")
            ELSE ReturnValue(j.val)

DeleteProjectArgs == [project_id : OneProject, full_path : {None},
                      permanently_remove : {None, Bool(TRUE)}]

delete_project_request(c, a) ==
    Request("DELETE",
            get_gitlab_api(c) \o "/projects/" \o Fmt(a.project_id),
            {<<"PRIVATE-TOKEN", get_gitlab_token(c)>>},
            (IF a.full_path # None THEN {<<"full_path", a.full_path>>} ELSE {})
              \cup (IF a.permanently_remove # None
                    THEN {<<"permanently_remove", a.permanently_remove>>} ELSE {}),
            "none", {})

\* delete_project returns its message for 202 and 204, raises for 4xx and 5xx,
\* and falls off the end of the try block for every other status
delete_project(a, o) ==
    IF o.kind = "transport" THEN NetworkRequestError(ConnectionErrorStr)
    ELSE IF o.status \in {202, 204}
    THEN ReturnValue(Str("Project '" \o Fmt(a.project_id) \o "' successfully "
                         \o (IF o.status = 204 THEN "immediately deleted"
                             ELSE "queued for deletion")
                         \o " (HTTP " \o ToString(o.status) \o ")."))
    ELSE IF raise_for_status(o) THEN HTTPErrorDetails(o)
    ELSE ReturnValue(None)

\* the paths open(save_path, 'wb') can write to
Writable(path) == path = "/tmp/avatar.png"

DownloadAvatarArgs == [project_id : OneProject,
                       save_path : {None, Str("/tmp/avatar.png"), Str("/missing/avatar.png")}]

download_project_avatar_request(c, a) ==
    Request("GET",
            get_gitlab_api(c) \o "/projects/" \o Fmt(a.project_id) \o "/avatar",
            TokenHeader(c), {}, "none", {})

\* download_project_avatar never decodes an error body: details is its text
download_project_avatar(a, o) ==
    IF o.kind = "transport" THEN NetworkRequestError(ConnectionErrorStr)
    ELSE IF raise_for_status(o) THEN HTTPErrorTextOnly(o)
    ELSE IF Truthy(a.save_path)
    THEN IF Writable(a.save_path.v)
         THEN ReturnValue(Str("Avatar successfully saved to " \o a.save_path.v))
         ELSE ReturnDict([error |-> Str("File Write Error"),
                          details |-> Str("[Errno 2] No such file or directory")])
    ELSE ReturnValue(Bytes(o.text))

---------------------------------------------------------------------------
(* server/mcp_tools/merge_request_tools.py *)

SubscribeArgs == [project_id : OneProject, merge_request_iid : {Int("5")}]

subscribe_to_gitlab_merge_request_request(c, a) ==
    Request("POST",
            get_gitlab_api(c) \o "/projects/" \o Fmt(a.project_id)
                \o "/merge_requests/" \o Fmt(a.merge_request_iid) \o "/subscribe",
            TokenHeader(c), {}, "none", {})

\* subscribe_to_gitlab_merge_request answers 200 and 304 itself and leaves the
\* rest to raise_for_status, after which the try block ends without a return
subscribe_to_gitlab_merge_request(a, o) ==
    IF o.kind = "transport" THEN NetworkRequestError(ConnectionErrorStr)
    ELSE IF o.status = 200 THEN ReturnJson(o)
    ELSE IF o.status = 304
    THEN ReturnDict([status |-> Str("Not Modified"),
                     message |-> Str("User is already subscribed to this merge request.")])
    ELSE IF raise_for_status(o) THEN HTTPErrorDetails(o)
    ELSE ReturnValue(None)

\* the eight optional settings of update_gitlab_approval_configuration
NoApprovalOptions ==
    [approvals_before_merge |-> None,
     disable_overriding_approvers_per_merge_request |-> None,
     merge_requests_author_approval |-> None,
     merge_requests_disable_committers_approval |-> None,
     require_password_to_approve |-> None,
     require_reauthentication_to_approve |-> None,
     reset_approvals_on_push |-> None,
     selective_code_owner_removals |-> None]

ApprovalArgs ==
    [project_id : OneProject,
     options : {NoApprovalOptions,
                [NoApprovalOptions EXCEPT !.merge_requests_author_approval = Bool(FALSE)],
                [NoApprovalOptions EXCEPT !.approvals_before_merge = Int("2"),
                                          !.reset_approvals_on_push = Bool(TRUE)]}]

\* the payload: every option that is not None
approval_payload(a) ==
    {<<k, a.options[k]>> : k \in {n \in DOMAIN a.options : a.options[n] # None}}

update_gitlab_approval_configuration_request(c, a) ==
    Request("POST",
            get_gitlab_api(c) \o "/projects/" \o Fmt(a.project_id) \o "/approvals",
            {<<"Content-Type", "application/json">>} \cup TokenHeader(c),
            {}, "json", approval_payload(a))

\* what update_gitlab_approval_configuration returns, without a request, when
\* no option is set
NoUpdateParameters ==
    ReturnDict([warning |-> Str("No update parameters provided."),
                details |-> Str("The API call was skipped because no optional parameters were set.")])

update_gitlab_approval_configuration(a, o) ==
    IF o.kind = "transport" THEN NetworkRequestError(ConnectionErrorStr)
    ELSE IF raise_for_status(o) THEN HTTPErrorDetails(o)
    ELSE ReturnJson(o)

---------------------------------------------------------------------------
(* server/mcp_tools/repo_tools.py *)

\* repo_tools imports mcp, get_gitlab_api, get_gitlab_token, httpx and
\* GitLabRepository: `client`, which create_repository posts with, is no name of
\* the module, so evaluating it raises NameError
client_defined == FALSE

CreateRepositoryArgs == [name : {Str(""), Str("demo")},
                         description : {None},
                         visibility : {Absent, Str("secret")},
                         initialize_with_readme : {Absent}]

\* create_repository's parameters with their defaults applied
create_repository_bound(a) ==
    [name |-> a.name,
     description |-> Bind(a.description, None),
     visibility |-> Bind(a.visibility, Str("private")),
     initialize_with_readme |-> Bind(a.initialize_with_readme, Bool(FALSE))]

\* the payload: every parameter that is not None
create_repository_request(c, a) ==
    LET b == create_repository_bound(a)
    IN Request("POST", get_gitlab_api(c) \o "/projects", {}, {}, "json",
               {<<k, b[k]>> : k \in {n \in DOMAIN b : b[n] # None}})

\* the parameter checks of create_repository and the NameError, each re-raised
\* as Exception by the except blocks: none needs an answer from the remote
create_repository_early(a) ==
    IF ~Truthy(a.name)
    THEN Raise("Exception: Parameter validation error: Repository name is required")
    ELSE IF Truthy(create_repository_bound(a).visibility)
            /\ create_repository_bound(a).visibility.v \notin {"private", "internal", "public"}
    THEN Raise("Exception: Parameter validation error: Visibility must be 'private', 'internal', or 'public'")
    ELSE IF ~client_defined
    THEN Raise("Exception: Unexpected error during repository creation: name 'client' is not defined")
    ELSE Pending

\* create_repository from the answer on (with a client to post with): every
\* except block raises again, and the success path needs id, name, path and
\* visibility in a decoded object
create_repository(a, o) ==
    IF o.kind = "transport"
    THEN Raise("AttributeError: 'ConnectError' object has no attribute 'response'")
    ELSE IF o.status = 400
    THEN IF response_json(o).ok
         THEN Raise("Exception: Unexpected error during repository creation: Bad Request")
         ELSE Raise("Exception: Parameter validation error: Expecting value")
    ELSE IF o.status \in {401, 403, 409}
    THEN Raise("Exception: Unexpected error during repository creation")
    ELSE IF o.status < 200 \/ o.status >= 300
    THEN Raise("Exception: GitLab API error " \o ToString(o.status))
    ELSE LET j == response_json(o)
         IN IF ~j.ok THEN Raise("Exception: Parameter validation error: Expecting value")
            ELSE IF j.val.ty # "dict"
            THEN Raise("Exception: Unexpected error during repository creation: TypeError")
            ELSE IF \E k \in {"id", "name", "path", "visibility"} : ~HasKey(j.val, k)
            THEN Raise("Exception: Missing expected field in GitLab response")
            ELSE ReturnValue(j.val)

---------------------------------------------------------------------------
(* More of branch_tools.py, file_tools.py, merge_request_tools.py, issue_tools.py
   and repo_tools.py *)

CreateBranchArgs == [project_id : OneProject, branch_name : {Str("feature")},
                     ref_source : {Str("main")}]

gitlab_create_branch_request(c, a) ==
    Request("POST",
            get_gitlab_api(c) \o "/projects/" \o Fmt(a.project_id) \o "/repository/branches",
            {<<"PRIVATE-TOKEN", get_gitlab_token(c)>>},
            {<<"branch", a.branch_name>>, <<"ref", a.ref_source>>},
            "none", {})

gitlab_create_branch(a, o) ==
    IF o.kind = "transport" THEN NetworkRequestError(ConnectionErrorStr)
    ELSE IF raise_for_status(o) THEN HTTPErrorDetails(o)
    ELSE ReturnJson(o)

DeleteBranchArgs == [project_id : OneProject, branch_name : {Str("feature")}]

gitlab_delete_branch_request(c, a) ==
    Request("DELETE",
            get_gitlab_api(c) \o "/projects/" \o Fmt(a.project_id)
                \o "/repository/branches/" \o Fmt(a.branch_name),
            {<<"PRIVATE-TOKEN", get_gitlab_token(c)>>},
            {}, "none", {})

\* gitlab_delete_branch returns its message for 204 and a warning with the body
\* text for every other status below 400
gitlab_delete_branch(a, o) ==
    IF o.kind = "transport" THEN NetworkRequestError(ConnectionErrorStr)
    ELSE IF raise_for_status(o) THEN HTTPErrorDetails(o)
    ELSE IF o.status = 204
    THEN ReturnValue(Str("[GITLAB DELETE BRANCH] Branch '" \o Fmt(a.branch_name)
                         \o "' deleted successfully (HTTP 204 No Content)."))
    ELSE ReturnDict([warning |-> Str("Branch deletion returned unexpected status code "
                                     \o ToString(o.status) \o "."),
                     text |-> Str(o.text)])

\* the text of a str, put together from its characters
RECURSIVE Join(_)
Join(chars) == IF chars = <<>> THEN "" ELSE Head(chars) \o Join(Tail(chars))

\* the file paths the callers pass, character by character: "d/a" and "a b"
FilePaths == {<<"d", "/", "a">>, <<"a", " ", "b">>}

DeleteFileArgs == [project_id : OneProject, file_path : FilePaths,
                   branch : {Str("main")}, commit_message : {Str("remove")},
                   last_commit_id : {None, Str("")}]

\* urllib.parse.quote_plus on one character: a space becomes "+", a character
\* outside the letters, the digits and "_.-~" becomes its %XX
quote_plus_char(ch) ==
    CASE ch = " " -> "+"
      [] ch = "/" -> "%2F"
      [] ch = "+" -> "%2B"
      [] ch = "%" -> "%25"
      [] OTHER -> ch

\* the file tools quote the path with urllib.parse.quote_plus: what each
\* character of the path becomes
quote_plus(path) == [i \in 1..Len(path) |-> quote_plus_char(path[i])]

delete_gitlab_file_request(c, a) ==
    Request("DELETE",
            get_gitlab_api(c) \o "/projects/" \o Fmt(a.project_id)
                \o "/repository/files/" \o Join(quote_plus(a.file_path)),
            {<<"PRIVATE-TOKEN", get_gitlab_token(c)>>, <<"Content-Type", "application/json">>},
            {}, "json",
            {<<"branch", a.branch>>, <<"commit_message", a.commit_message>>}
              \cup (IF Truthy(a.last_commit_id)
                    THEN {<<"last_commit_id", a.last_commit_id>>} ELSE {}))

\* delete_gitlab_file builds its confirmation for 204 and decodes the body of
\* every other status below 400
delete_gitlab_file(a, o) ==
    IF o.kind = "transport" THEN NetworkRequestError(ConnectionErrorStr)
    ELSE IF raise_for_status(o) THEN HTTPErrorDetails(o)
    ELSE IF o.status = 204
    THEN ReturnDict([status |-> Str("success"),
                     message |-> Str("File deleted successfully (No Content returned)")])
    ELSE ReturnJson(o)

MergeRequestArgs == [project_id : OneProject, merge_request_iid : {Int("5")}]

delete_gitlab_merge_request_request(c, a) ==
    Request("DELETE",
            get_gitlab_api(c) \o "/projects/" \o Fmt(a.project_id)
                \o "/merge_requests/" \o Fmt(a.merge_request_iid),
            TokenHeader(c), {}, "none", {})

\* delete_gitlab_merge_request returns None for 204 and a status dict for every
\* other status below 400
delete_gitlab_merge_request(a, o) ==
    IF o.kind = "transport" THEN NetworkRequestError(ConnectionErrorStr)
    ELSE IF raise_for_status(o) THEN HTTPErrorDetails(o)
    ELSE IF o.status = 204 THEN ReturnValue(None)
    ELSE ReturnDict([status |-> Str("Success"),
                     message |-> Str("Merge request deleted, received unexpected status code "
                                     \o ToString(o.status))])

create_gitlab_merge_request_todo_request(c, a) ==
    Request("POST",
            get_gitlab_api(c) \o "/projects/" \o Fmt(a.project_id)
                \o "/merge_requests/" \o Fmt(a.merge_request_iid) \o "/todo",
            TokenHeader(c), {}, "none", {})

\* create_gitlab_merge_request_todo answers 201 and 304 itself and leaves the
\* rest to raise_for_status, after which the try block ends without a return
create_gitlab_merge_request_todo(a, o) ==
    IF o.kind = "transport" THEN NetworkRequestError(ConnectionErrorStr)
    ELSE IF o.status = 201 THEN ReturnJson(o)
    ELSE IF o.status = 304
    THEN IF response_json(o).ok
         THEN ReturnDict([status |-> Str("Not Modified"),
                          message |-> Str("To-do item already exists."),
                          details |-> response_json(o).val])
         ELSE ReturnDict([status |-> Str("Not Modified"),
                          message |-> Str("To-do item already exists.")])
    ELSE IF raise_for_status(o) THEN HTTPErrorDetails(o)
    ELSE ReturnValue(None)

\* the optional fields of edit_issue (of its fifteen, the three the callers use)
NoIssueEdits == [title |-> None, description |-> None, state_event |-> None]

EditIssueArgs ==
    [project_id : OneProject, issue_iid : {Int("3")},
     edits : {NoIssueEdits,
              [NoIssueEdits EXCEPT !.title = Str("")],
              [NoIssueEdits EXCEPT !.state_event = Str("close")]}]

\* the data: every field that is not None
edit_issue_data(a) ==
    {<<k, a.edits[k]>> : k \in {n \in DOMAIN a.edits : a.edits[n] # None}}

edit_issue_request(c, a) ==
    Request("PUT",
            get_gitlab_api(c) \o "/projects/" \o Fmt(a.project_id)
                \o "/issues/" \o Fmt(a.issue_iid),
            {<<"PRIVATE-TOKEN", get_gitlab_token(c)>>},
            {}, "json", edit_issue_data(a))

\* what edit_issue returns, without a request, when no field is set
NothingToUpdate ==
    ReturnDict([error |-> Str("At least one parameter to update is required.")])

edit_issue(a, o) ==
    IF o.kind = "transport" THEN NetworkRequestError(ConnectionErrorStr)
    ELSE IF raise_for_status(o) THEN HTTPErrorDetails(o)
    ELSE ReturnJson(o)

MergeBaseArgs ==
    [project_id : {Str("7")},
     refs : {List({<<"0", "str", "main">>}),
             List({<<"0", "str", "main">>, <<"1", "str", "feature">>})}]

get_gitlab_merge_base_request(c, a) ==
    Request("GET",
            get_gitlab_api(c) \o "/projects/" \o Fmt(a.project_id)
                \o "/repository/merge_base",
            TokenHeader(c), {<<"refs", a.refs>>}, "none", {})

\* what get_gitlab_merge_base returns, without a request, for fewer than two refs
TooFewRefs ==
    ReturnDict([error |-> Str("Invalid Input"),
                details |-> Str("The 'refs' list must contain at least two references (SHA, branch, or tag) to find a common merge base.")])

get_gitlab_merge_base(a, o) ==
    IF o.kind = "transport" THEN NetworkRequestError(ConnectionErrorStr)
    ELSE IF raise_for_status(o) THEN HTTPErrorDetails(o)
    ELSE ReturnJson(o)

RawBlobArgs == [project_id : {Str("7")}, sha : {Str("main")}]

get_raw_gitlab_blob_request(c, a) ==
    Request("GET",
            get_gitlab_api(c) \o "/projects/" \o Fmt(a.project_id)
                \o "/repository/blobs/" \o Fmt(a.sha) \o "/raw",
            TokenHeader(c), {}, "none", {})

\* get_raw_gitlab_blob returns the body as text, undecoded
get_raw_gitlab_blob(a, o) ==
    IF o.kind = "transport" THEN NetworkRequestError(ConnectionErrorStr)
    ELSE IF raise_for_status(o) THEN HTTPErrorDetails(o)
    ELSE ReturnValue(Str(o.text))

\* the optional filters of list_issues (of its twenty-two, the two booleans):
\* each None, or a value, one filter at a time
ListIssuesArgs ==
    {a \in [confidential : {None, Bool(TRUE), Bool(FALSE)},
            with_labels_details : {None, Bool(TRUE), Bool(FALSE)}] :
        a.confidential = None \/ a.with_labels_details = None}

\* a list_issues that would put every filter into the query, set or not
list_issues_request_all_keys(c, a) ==
    Request("GET", get_gitlab_api(c) \o "/issues",
            {<<"PRIVATE-TOKEN", get_gitlab_token(c)>>},
            {<<k, a[k]>> : k \in DOMAIN a},
            "none", {})

\* list_issues tests its first five filters with `is not None` and the others
\* for truth, and puts the value into the query as it is
list_issues_request(c, a) ==
    Request("GET", get_gitlab_api(c) \o "/issues",
            {<<"PRIVATE-TOKEN", get_gitlab_token(c)>>},
            (IF a.confidential # None THEN {<<"confidential", a.confidential>>} ELSE {})
              \cup (IF Truthy(a.with_labels_details)
                    THEN {<<"with_labels_details", a.with_labels_details>>} ELSE {}),
            "none", {})

list_issues(a, o) ==
    IF o.kind = "transport" THEN NetworkRequestError(ConnectionErrorStr)
    ELSE IF raise_for_status(o) THEN HTTPErrorDetails(o)
    ELSE ReturnJson(o)

\* set_gitlab_commit_pipeline_status: the state and, of its seven optional
\* fields, the two aliases name and context
CommitStatusArgs ==
    {a \in [project_id : OneProject, sha : {Str("main")}, state : {Str("success")},
            name : {None, Str(""), Str("ci")}, context : {None, Str("build")}] :
        a.context = None => a.name = None}

\* the payload takes name when it is not None, else context when it is not None
set_gitlab_commit_pipeline_status_request(c, a) ==
    Request("POST",
            get_gitlab_api(c) \o "/projects/" \o Fmt(a.project_id)
                \o "/statuses/" \o Fmt(a.sha),
            {<<"Content-Type", "application/json">>} \cup TokenHeader(c),
            {}, "json",
            {<<"state", a.state>>}
              \cup (IF a.name # None THEN {<<"name", a.name>>}
                    ELSE IF a.context # None THEN {<<"context", a.context>>}
                    ELSE {}))

set_gitlab_commit_pipeline_status(a, o) ==
    IF o.kind = "transport" THEN NetworkRequestError(ConnectionErrorStr)
    ELSE IF raise_for_status(o) THEN HTTPErrorDetails(o)
    ELSE ReturnJson(o)

\* the submodule paths the callers pass, character by character: "l/s"
SubmoduleArgs == [project_id : {Str("7")}, submodule_path : {<<"l", "/", "s">>},
                  branch : {Str("main")}, commit_sha : {Str("3ddec28e")},
                  commit_message : {None}]

\* update_gitlab_submodule_reference puts submodule_path into the URL as it is
update_gitlab_submodule_reference_request(c, a) ==
    Request("PUT",
            get_gitlab_api(c) \o "/projects/" \o Fmt(a.project_id)
                \o "/repository/submodules/" \o Join(a.submodule_path),
            {<<"PRIVATE-TOKEN", get_gitlab_token(c)>>,
             <<"Content-Type", "application/x-www-form-urlencoded">>},
            {}, "form",
            {<<"branch", a.branch>>, <<"commit_sha", a.commit_sha>>}
              \cup (IF Truthy(a.commit_message)
                    THEN {<<"commit_message", a.commit_message>>} ELSE {}))

update_gitlab_submodule_reference(a, o) ==
    IF o.kind = "transport" THEN NetworkRequestError(ConnectionErrorStr)
    ELSE IF raise_for_status(o) THEN HTTPErrorDetails(o)
    ELSE ReturnJson(o)

\* the subscribe, unsubscribe and to-do tools of issue_tools.py answer 304
\* themselves and leave every other status to raise_for_status and response.json()
subscribe_to_issue_request(c, a) ==
    Request("POST",
            get_gitlab_api(c) \o "/projects/" \o Fmt(a.project_id)
                \o "/issues/" \o Fmt(a.issue_iid) \o "/subscribe",
            {<<"PRIVATE-TOKEN", get_gitlab_token(c)>>},
            {}, "none", {})

\* a subscribe_to_issue without the test for 304
subscribe_to_issue_no_304(a, o) ==
    IF o.kind = "transport" THEN NetworkRequestError(ConnectionErrorStr)
    ELSE IF raise_for_status(o) THEN HTTPErrorDetails(o)
    ELSE ReturnJson(o)

subscribe_to_issue(a, o) ==
    IF o.kind = "transport" THEN NetworkRequestError(ConnectionErrorStr)
    ELSE IF o.status = 304
    THEN ReturnDict([status |-> Str("not_modified"),
                     message |-> Str("Already subscribed to issue " \o Fmt(a.issue_iid) \o ".")])
    ELSE IF raise_for_status(o) THEN HTTPErrorDetails(o)
    ELSE ReturnJson(o)

unsubscribe_from_issue_request(c, a) ==
    Request("POST",
            get_gitlab_api(c) \o "/projects/" \o Fmt(a.project_id)
                \o "/issues/" \o Fmt(a.issue_iid) \o "/unsubscribe",
            {<<"PRIVATE-TOKEN", get_gitlab_token(c)>>},
            {}, "none", {})

unsubscribe_from_issue(a, o) ==
    IF o.kind = "transport" THEN NetworkRequestError(ConnectionErrorStr)
    ELSE IF o.status = 304
    THEN ReturnDict([status |-> Str("not_modified"),
                     message |-> Str("You were not subscribed to issue " \o Fmt(a.issue_iid) \o ".")])
    ELSE IF raise_for_status(o) THEN HTTPErrorDetails(o)
    ELSE ReturnJson(o)

create_todo_on_issue_request(c, a) ==
    Request("POST",
            get_gitlab_api(c) \o "/projects/" \o Fmt(a.project_id)
                \o "/issues/" \o Fmt(a.issue_iid) \o "/todo",
            {<<"PRIVATE-TOKEN", get_gitlab_token(c)>>},
            {}, "none", {})

create_todo_on_issue(a, o) ==
    IF o.kind = "transport" THEN NetworkRequestError(ConnectionErrorStr)
    ELSE IF o.status = 304
    THEN ReturnDict([status |-> Str("not_modified"),
                     message |-> Str("A to-do item already exists for you on issue " \o Fmt(a.issue_iid) \o ".")])
    ELSE IF raise_for_status(o) THEN HTTPErrorDetails(o)
    ELSE ReturnJson(o)

unsubscribe_from_gitlab_merge_request_request(c, a) ==
    Request("POST",
            get_gitlab_api(c) \o "/projects/" \o Fmt(a.project_id)
                \o "/merge_requests/" \o Fmt(a.merge_request_iid) \o "/unsubscribe",
            TokenHeader(c), {}, "none", {})

\* unsubscribe_from_gitlab_merge_request answers 200 and 304 itself and leaves
\* the rest to raise_for_status, after which the try block ends without a return
unsubscribe_from_gitlab_merge_request(a, o) ==
    IF o.kind = "transport" THEN NetworkRequestError(ConnectionErrorStr)
    ELSE IF o.status = 200 THEN ReturnJson(o)
    ELSE IF o.status = 304
    THEN ReturnDict([status |-> Str("Not Modified"),
                     message |-> Str("User is already unsubscribed from this merge request.")])
    ELSE IF raise_for_status(o) THEN HTTPErrorDetails(o)
    ELSE ReturnValue(None)

---------------------------------------------------------------------------
(* The calls *)

Called(op, args) == [op |-> op, args |-> args]

\* no two calls run at once: set_gitlab_config is not running, no handler is
\* between its reads of the store
NoThreads == [writer |-> [pc |-> "idle", api_url |-> None, token |-> None,
                          before |-> [api_url |-> "", token |-> ""]],
              reader |-> [pc |-> "idle", api_url |-> ""]]

\* the caller's choices for set_gitlab_config's two parameters (default None)
SetArgs == [api_url : {None} \cup {Str(u) : u \in ApiUrls},
            token : {None} \cup {Str(t) : t \in Tokens}]
\* the caller's choices for configure_gitlab's two parameters
ConfigureArgs == [api_url : {Absent} \cup {Str(u) : u \in ApiUrls},
                  token : {Absent, None} \cup {Str(t) : t \in Tokens}]

Init ==
    /\ config \in InitConfig
    /\ call = Called("import", <<>>)
    /\ request = NoRequest
    /\ outcome = NoOutcome
    /\ result = ReturnValue(None)
    /\ pc = "idle"
    /\ repeated = FALSE
    /\ emptyTokenConfigured = FALSE
    /\ threads = NoThreads

\* a handler that would send what the previous call of the same tool sent
Send_previous_request(op, a, req) ==
    /\ pc = "idle"
    /\ pc' = "waiting"
    /\ call' = Called(op, a)
    /\ request' = IF call.op = op /\ request.sent THEN request ELSE req
    /\ outcome' = NoOutcome
    /\ result' = Pending
    /\ repeated' = FALSE
    /\ UNCHANGED <<config, emptyTokenConfigured, threads>>

\* a handler has built its request and blocks in the HTTP call
Send(op, a, req) ==
    /\ pc = "idle"
    /\ pc' = "waiting"
    /\ call' = Called(op, a)
    /\ request' = req
    /\ outcome' = NoOutcome
    /\ result' = Pending
    /\ repeated' = FALSE
    /\ UNCHANGED <<config, emptyTokenConfigured, threads>>

\* a handler has ended without sending a request
ReturnEarly(op, a, res) ==
    /\ pc = "idle"
    /\ pc' = "idle"
    /\ call' = Called(op, a)
    /\ request' = NoRequest
    /\ outcome' = NoOutcome
    /\ result' = res
    /\ repeated' = FALSE
    /\ UNCHANGED <<config, emptyTokenConfigured, threads>>

SetGitlabConfig ==
    \E a \in SetArgs :
        /\ pc = "idle"
        /\ pc' = "idle"
        /\ config' = set_gitlab_config(config, a.api_url, a.token)
        /\ call' = Called("set_gitlab_config", a)
        /\ request' = NoRequest
        /\ outcome' = NoOutcome
        /\ result' = ReturnValue(None)
        /\ repeated' = (call = call')
        /\ emptyTokenConfigured' = (emptyTokenConfigured /\ ~Truthy(a.token))
        /\ UNCHANGED threads

ConfigureGitlab ==
    \E a \in ConfigureArgs :
        LET r == configure_gitlab(config, Bind(a.api_url, Str(DefaultApiUrl)),
                                  Bind(a.token, None))
        IN /\ pc = "idle"
           /\ pc' = "idle"
           /\ config' = r.config
           /\ call' = Called("configure_gitlab", a)
           /\ request' = NoRequest
           /\ outcome' = NoOutcome
           /\ result' = ReturnDict(r.ret)
           /\ repeated' = (call = call')
           /\ emptyTokenConfigured' = ~Truthy(Bind(a.token, None))
           /\ UNCHANGED threads

CheckGitlabConfig ==
    /\ pc = "idle"
    /\ pc' = "idle"
    /\ call' = Called("check_gitlab_config", <<>>)
    /\ request' = NoRequest
    /\ outcome' = NoOutcome
    /\ result' = ReturnDict(check_gitlab_config(config))
    /\ repeated' = (call = call')
    /\ UNCHANGED <<config, emptyTokenConfigured, threads>>

GitlabListBranches ==
    \E a \in ListBranchesArgs :
        Send("gitlab_list_branches", a, gitlab_list_branches_request(config, a))

DeleteIssue ==
    \E a \in DeleteIssueArgs :
        Send("delete_issue", a, delete_issue_request(config, a))

GetGitlabCommitSignature ==
    \E a \in CommitSignatureArgs :
        Send("get_gitlab_commit_signature", a, get_gitlab_commit_signature_request(config, a))

CherryPickGitlabCommit ==
    \E a \in CherryPickArgs :
        Send("cherry_pick_gitlab_commit", a, cherry_pick_gitlab_commit_request(config, a))

ImportProjectMembers ==
    \E a \in ImportMembersArgs :
        Send("import_project_members", a, import_project_members_request(config, a))

DeleteProject ==
    \E a \in DeleteProjectArgs :
        Send("delete_project", a, delete_project_request(config, a))

DownloadProjectAvatar ==
    \E a \in DownloadAvatarArgs :
        Send("download_project_avatar", a, download_project_avatar_request(config, a))

SubscribeToGitlabMergeRequest ==
    \E a \in SubscribeArgs :
        Send("subscribe_to_gitlab_merge_request", a,
             subscribe_to_gitlab_merge_request_request(config, a))

UpdateGitlabApprovalConfiguration ==
    \E a \in ApprovalArgs :
        IF approval_payload(a) = {}
        THEN ReturnEarly("update_gitlab_approval_configuration", a, NoUpdateParameters)
        ELSE Send("update_gitlab_approval_configuration", a,
                  update_gitlab_approval_configuration_request(config, a))

CreateRepository ==
    \E a \in CreateRepositoryArgs :
        IF create_repository_early(a) # Pending
        THEN ReturnEarly("create_repository", a, create_repository_early(a))
        ELSE Send("create_repository", a, create_repository_request(config, a))

GitlabCreateBranch ==
    \E a \in CreateBranchArgs :
        Send("gitlab_create_branch", a, gitlab_create_branch_request(config, a))

GitlabDeleteBranch ==
    \E a \in DeleteBranchArgs :
        Send("gitlab_delete_branch", a, gitlab_delete_branch_request(config, a))

DeleteGitlabFile ==
    \E a \in DeleteFileArgs :
        Send("delete_gitlab_file", a, delete_gitlab_file_request(config, a))

DeleteGitlabMergeRequest ==
    \E a \in MergeRequestArgs :
        Send("delete_gitlab_merge_request", a, delete_gitlab_merge_request_request(config, a))

CreateGitlabMergeRequestTodo ==
    \E a \in MergeRequestArgs :
        Send("create_gitlab_merge_request_todo", a,
             create_gitlab_merge_request_todo_request(config, a))

EditIssue ==
    \E a \in EditIssueArgs :
        IF edit_issue_data(a) = {}
        THEN ReturnEarly("edit_issue", a, NothingToUpdate)
        ELSE Send("edit_issue", a, edit_issue_request(config, a))

GetGitlabMergeBase ==
    \E a \in MergeBaseArgs :
        IF Cardinality(a.refs.m) < 2
        THEN ReturnEarly("get_gitlab_merge_base", a, TooFewRefs)
        ELSE Send("get_gitlab_merge_base", a, get_gitlab_merge_base_request(config, a))

GetRawGitlabBlob ==
    \E a \in RawBlobArgs :
        Send("get_raw_gitlab_blob", a, get_raw_gitlab_blob_request(config, a))

ListIssues ==
    \E a \in ListIssuesArgs :
        Send("list_issues", a, list_issues_request(config, a))

SetGitlabCommitPipelineStatus ==
    \E a \in CommitStatusArgs :
        Send("set_gitlab_commit_pipeline_status", a,
             set_gitlab_commit_pipeline_status_request(config, a))

UpdateGitlabSubmoduleReference ==
    \E a \in SubmoduleArgs :
        Send("update_gitlab_submodule_reference", a,
             update_gitlab_submodule_reference_request(config, a))

SubscribeToIssue ==
    \E a \in DeleteIssueArgs :
        Send("subscribe_to_issue", a, subscribe_to_issue_request(config, a))

UnsubscribeFromIssue ==
    \E a \in DeleteIssueArgs :
        Send("unsubscribe_from_issue", a, unsubscribe_from_issue_request(config, a))

CreateTodoOnIssue ==
    \E a \in DeleteIssueArgs :
        Send("create_todo_on_issue", a, create_todo_on_issue_request(config, a))

UnsubscribeFromGitlabMergeRequest ==
    \E a \in SubscribeArgs :
        Send("unsubscribe_from_gitlab_merge_request", a,
             unsubscribe_from_gitlab_merge_request_request(config, a))

\* the rest of the blocked handler, from the answer (or the transport's failure) on
Handle(op, a, o) ==
    CASE op = "gitlab_list_branches" -> gitlab_list_branches(a, o)
      [] op = "delete_issue" -> delete_issue(a, o)
      [] op = "get_gitlab_commit_signature" -> get_gitlab_commit_signature(a, o)
      [] op = "cherry_pick_gitlab_commit" -> cherry_pick_gitlab_commit(a, o)
      [] op = "import_project_members" -> import_project_members(a, o)
      [] op = "delete_project" -> delete_project(a, o)
      [] op = "download_project_avatar" -> download_project_avatar(a, o)
      [] op = "subscribe_to_gitlab_merge_request" -> subscribe_to_gitlab_merge_request(a, o)
      [] op = "update_gitlab_approval_configuration" ->
            update_gitlab_approval_configuration(a, o)
      [] op = "create_repository" -> create_repository(a, o)
      [] op = "gitlab_create_branch" -> gitlab_create_branch(a, o)
      [] op = "gitlab_delete_branch" -> gitlab_delete_branch(a, o)
      [] op = "delete_gitlab_file" -> delete_gitlab_file(a, o)
      [] op = "delete_gitlab_merge_request" -> delete_gitlab_merge_request(a, o)
      [] op = "create_gitlab_merge_request_todo" -> create_gitlab_merge_request_todo(a, o)
      [] op = "edit_issue" -> edit_issue(a, o)
      [] op = "get_gitlab_merge_base" -> get_gitlab_merge_base(a, o)
      [] op = "get_raw_gitlab_blob" -> get_raw_gitlab_blob(a, o)
      [] op = "list_issues" -> list_issues(a, o)
      [] op = "set_gitlab_commit_pipeline_status" ->
            set_gitlab_commit_pipeline_status(a, o)
      [] op = "update_gitlab_submodule_reference" ->
            update_gitlab_submodule_reference(a, o)
      [] op = "subscribe_to_issue" -> subscribe_to_issue(a, o)
      [] op = "unsubscribe_from_issue" -> unsubscribe_from_issue(a, o)
      [] op = "create_todo_on_issue" -> create_todo_on_issue(a, o)
      [] op = "unsubscribe_from_gitlab_merge_request" ->
            unsubscribe_from_gitlab_merge_request(a, o)

\* a handler that would send its request once more after a transport failure
Respond_retry ==
    \E o \in Outcomes :
        /\ pc = "waiting"
        /\ IF o.kind = "transport" /\ request.n < 2
           THEN /\ pc' = "waiting"
                /\ request' = [request EXCEPT !.n = 2]
                /\ UNCHANGED <<outcome, result>>
           ELSE /\ pc' = "idle"
                /\ outcome' = o
                /\ result' = Handle(call.op, call.args, o)
                /\ UNCHANGED request
        /\ UNCHANGED <<config, call, repeated, emptyTokenConfigured, threads>>

\* the HTTP call of the blocked handler ends, in a response or in a transport
\* failure, and the handler runs to its return
Respond ==
    \E o \in Outcomes :
        /\ pc = "waiting"
        /\ pc' = "idle"
        /\ outcome' = o
        /\ result' = Handle(call.op, call.args, o)
        /\ UNCHANGED <<config, call, request, repeated, emptyTokenConfigured, threads>>

Next ==
    \/ SetGitlabConfig
    \/ ConfigureGitlab
    \/ CheckGitlabConfig
    \/ GitlabListBranches
    \/ DeleteIssue
    \/ GetGitlabCommitSignature
    \/ CherryPickGitlabCommit
    \/ ImportProjectMembers
    \/ DeleteProject
    \/ DownloadProjectAvatar
    \/ SubscribeToGitlabMergeRequest
    \/ UpdateGitlabApprovalConfiguration
    \/ CreateRepository
    \/ GitlabCreateBranch
    \/ GitlabDeleteBranch
    \/ DeleteGitlabFile
    \/ DeleteGitlabMergeRequest
    \/ CreateGitlabMergeRequestTodo
    \/ EditIssue
    \/ GetGitlabMergeBase
    \/ GetRawGitlabBlob
    \/ ListIssues
    \/ SetGitlabCommitPipelineStatus
    \/ UpdateGitlabSubmoduleReference
    \/ SubscribeToIssue
    \/ UnsubscribeFromIssue
    \/ CreateTodoOnIssue
    \/ UnsubscribeFromGitlabMergeRequest
    \/ Respond

Spec == Init /\ [][Next]_vars

---------------------------------------------------------------------------
(* The configuration store *)

\* the argument was passed and is a non-empty string
Provided(x) == x.ty = "str" /\ x.v # ""

\* C1: in every reachable state is_configured() is true iff the stored api_url
\* and the stored token are both non-empty, and check_gitlab_config reports
\* exactly that.
C1_IsConfiguredIffBothSet ==
    /\ is_configured(config) <=> (config.api_url # "" /\ config.token # "")
    /\ call.op = "check_gitlab_config" =>
          result.d.configured = Bool(config.api_url # "" /\ config.token # "")

\* C1 witness: check_gitlab_config has just answered for a store holding a token
\* and no api_url.
C1_Witness ==
    /\ call.op = "check_gitlab_config"
    /\ config.api_url = ""
    /\ config.token # ""
    /\ result.d.configured = Bool(FALSE)

\* C2: set_gitlab_config(api_url, token) overwrites exactly the fields whose
\* argument is provided and non-empty; every other field keeps its value.
C2_SetOverwritesOnlyProvided ==
    [][call'.op = "set_gitlab_config" =>
         /\ config'.api_url = IF Provided(call'.args.api_url)
                              THEN call'.args.api_url.v ELSE config.api_url
         /\ config'.token = IF Provided(call'.args.token)
                            THEN call'.args.token.v ELSE config.token
         /\ DOMAIN config' = DOMAIN config]_vars

\* C2 witness: set_gitlab_config was called with an empty api_url and a token;
\* the store holds that token and still has an api_url.
C2_Witness ==
    /\ call.op = "set_gitlab_config"
    /\ call.args.api_url = Str("")
    /\ Provided(call.args.token)
    /\ config.token = call.args.token.v
    /\ config.api_url # ""

\* C3: configure_gitlab(a, b) called a second time in a row returns what the
\* first call returned and leaves the observable configuration (get_gitlab_api,
\* get_gitlab_token, is_configured, check_gitlab_config) as the first call left it.
C3_ConfigureIdempotent ==
    [][(call'.op = "configure_gitlab" /\ repeated') =>
         /\ result' = result
         /\ get_gitlab_api(config') = get_gitlab_api(config)
         /\ get_gitlab_token(config') = get_gitlab_token(config)
         /\ is_configured(config') = is_configured(config)
         /\ check_gitlab_config(config') = check_gitlab_config(config)]_vars

\* C3 witness: configure_gitlab has been called twice in a row with the same
\* url and the same token, and configured the store.
C3_Witness ==
    /\ call.op = "configure_gitlab"
    /\ repeated
    /\ Provided(call.args.api_url)
    /\ Provided(call.args.token)
    /\ "status" \in DOMAIN result.d

\* C4: configure_gitlab with an absent or empty token returns a dict with an
\* `error` key and leaves both stored fields as they were, whatever api_url is passed.
C4_NoTokenKeepsStore ==
    [][(call'.op = "configure_gitlab" /\ ~Provided(call'.args.token)) =>
         /\ result'.kind = "dict"
         /\ "error" \in DOMAIN result'.d
         /\ config' = config]_vars

\* C4 witness: on a store that holds a token, configure_gitlab was called without
\* a token and with an api_url other than the stored one.
C4_Witness ==
    /\ call.op = "configure_gitlab"
    /\ ~Provided(call.args.token)
    /\ Provided(call.args.api_url)
    /\ call.args.api_url.v # config.api_url
    /\ config.api_url # ""
    /\ config.token # ""
    /\ "error" \in DOMAIN result.d

\* C5: check_gitlab_config does not reveal the token: what it returned for a store
\* with a token is what it returns for the same api_url with any other token.
C5_CheckHidesToken ==
    (call.op = "check_gitlab_config" /\ config.token # "") =>
        \A t \in Tokens \ {""} :
            check_gitlab_config([config EXCEPT !.token = t]) = result.d

\* C5 witness: check_gitlab_config has answered for a store that holds a token,
\* and another non-empty token exists to compare with.
C5_Witness ==
    /\ call.op = "check_gitlab_config"
    /\ config.token # ""
    /\ result.d.token_set = Bool(TRUE)
    /\ \E t \in Tokens \ {""} : t # config.token

---------------------------------------------------------------------------
(* The tools' results *)

ToolOps == {"gitlab_list_branches", "delete_issue", "get_gitlab_commit_signature",
            "cherry_pick_gitlab_commit", "import_project_members", "delete_project",
            "download_project_avatar", "subscribe_to_gitlab_merge_request",
            "update_gitlab_approval_configuration", "create_repository",
            "gitlab_create_branch", "gitlab_delete_branch", "delete_gitlab_file",
            "delete_gitlab_merge_request", "create_gitlab_merge_request_todo",
            "edit_issue", "get_gitlab_merge_base", "get_raw_gitlab_blob",
            "list_issues", "set_gitlab_commit_pipeline_status",
            "update_gitlab_submodule_reference", "subscribe_to_issue",
            "unsubscribe_from_issue", "create_todo_on_issue",
            "unsubscribe_from_gitlab_merge_request"}

\* a tool call has ended (returned or raised)
ToolEnded == pc = "idle" /\ call.op \in ToolOps
\* the remote answered the tool's request
Answered == outcome.kind = "response"
\* the remote answered with a 4xx or 5xx status
AnsweredError == Answered /\ outcome.status >= 400 /\ outcome.status < 600

\* the statuses a handler tests for by number and answers as a success
ExplicitSuccess(op, a) ==
    CASE op = "delete_project" -> {202, 204}
      [] op \in {"subscribe_to_gitlab_merge_request",
                 "unsubscribe_from_gitlab_merge_request"} -> {200, 304}
      [] op \in {"subscribe_to_issue", "unsubscribe_from_issue",
                 "create_todo_on_issue"} -> {304}
      [] op = "cherry_pick_gitlab_commit" ->
            {201} \cup (IF Truthy(a.dry_run) THEN {200} ELSE {})
      [] op = "create_gitlab_merge_request_todo" -> {201, 304}
      [] op \in {"gitlab_delete_branch", "delete_gitlab_file",
                 "delete_gitlab_merge_request"} -> {204}
      [] OTHER -> {}

\* the status is one the handler takes as a success: one it tests for, or, in the
\* handlers that leave the test to raise_for_status, any status below 400
TreatedAsSuccess(op, a, st) ==
    IF op \in {"delete_project", "subscribe_to_gitlab_merge_request",
               "unsubscribe_from_gitlab_merge_request",
               "create_gitlab_merge_request_todo"}
    THEN st \in ExplicitSuccess(op, a)
    ELSE st < 400

\* the result is a value with an `error` key
HasErrorKey(r) ==
    \/ r.kind = "dict" /\ "error" \in DOMAIN r.d
    \/ r.kind = "value" /\ r.val.ty = "dict" /\ HasKey(r.val, "error")

\* the result is a dict the handler built that has the key
HasField(r, key) == r.kind = "dict" /\ key \in DOMAIN r.d

\* an empty value: "", b"", {}, [] or None
Empty(x) ==
    \/ x.ty = "NoneType"
    \/ x.ty \in {"str", "bytes"} /\ x.v = ""
    \/ x.ty \in {"dict", "list"} /\ x.m = {}

\* C6: no exception ever escapes a tool call, whatever the transport or the
\* remote answers.
C6_NoExceptionEscapes ==
    ToolEnded => result.kind # "raise"

\* C7: the value a tool returns is the success payload or has an `error` key: when
\* the remote did not answer with a status the tool treats as success, the value
\* returned has an `error` key (it is not None and not a dict without one).
C7_SuccessOrErrorKey ==
    (ToolEnded /\ result.kind # "raise") =>
        \/ Answered /\ TreatedAsSuccess(call.op, call.args, outcome.status)
        \/ HasErrorKey(result)

\* the handler decodes the body of an answer with this status on its success path
DecodesBody(op, st) ==
    \/ op \in {"gitlab_list_branches", "get_gitlab_commit_signature",
               "cherry_pick_gitlab_commit", "import_project_members",
               "update_gitlab_approval_configuration", "gitlab_create_branch",
               "edit_issue", "get_gitlab_merge_base", "list_issues",
               "set_gitlab_commit_pipeline_status", "update_gitlab_submodule_reference"}
    \/ op \in {"subscribe_to_gitlab_merge_request",
                "unsubscribe_from_gitlab_merge_request"} /\ st = 200
    \/ op \in {"subscribe_to_issue", "unsubscribe_from_issue",
                "create_todo_on_issue"} /\ st # 304
    \/ op = "create_gitlab_merge_request_todo" /\ st = 201
    \/ op = "delete_gitlab_file" /\ st # 204

\* the tools whose HTTPError block returns str(e) with the body as details
PlainErrorTools == {"gitlab_list_branches", "delete_issue", "import_project_members",
                    "delete_project", "download_project_avatar",
                    "subscribe_to_gitlab_merge_request",
                    "update_gitlab_approval_configuration",
                    "gitlab_create_branch", "gitlab_delete_branch", "delete_gitlab_file",
                    "delete_gitlab_merge_request", "create_gitlab_merge_request_todo",
                    "edit_issue", "get_gitlab_merge_base", "get_raw_gitlab_blob",
                    "list_issues", "set_gitlab_commit_pipeline_status",
                    "update_gitlab_submodule_reference", "subscribe_to_issue",
                    "unsubscribe_from_issue", "create_todo_on_issue",
                    "unsubscribe_from_gitlab_merge_request"}

\* a failure path of the last call: no response, a status that is no success, a
\* success body that does not decode, or a parameter check that failed
FailurePath ==
    \/ ToolEnded /\ outcome.kind = "transport"
    \/ ToolEnded /\ Answered /\ ~TreatedAsSuccess(call.op, call.args, outcome.status)
    \/ ToolEnded /\ Answered /\ TreatedAsSuccess(call.op, call.args, outcome.status)
          /\ DecodesBody(call.op, outcome.status) /\ ~response_json(outcome).ok
    \/ call.op = "create_repository" /\ pc = "idle" /\ outcome.kind = "none"
    \/ call.op = "configure_gitlab" /\ ~Provided(call.args.token)

C10_DetailsNeverEmpty ==
    (ToolEnded /\ HasField(result, "error") /\ HasField(result, "details")) =>
        ~Empty(result.d.details)

\* C10 amended: in the error result for a 4xx or 5xx answer `details` is empty
\* exactly when the response body is empty (details is then "") or, in a tool
\* that decodes it, is an empty JSON value ({}, [] or null).
C10_DetailsEmptyIffBodyEmpty ==
    (ToolEnded /\ AnsweredError /\ HasField(result, "error") /\ HasField(result, "details")) =>
        /\ Empty(result.d.details) <=>
              \/ outcome.text = ""
              \/ /\ call.op # "download_project_avatar"
                 /\ response_json(outcome).ok
                 /\ Empty(response_json(outcome).val)
        /\ outcome.text = "" => result.d.details = Str("")

\* C10 witness: delete_issue was answered 404 with an empty body and returned an
\* error result whose details is the empty string.
C10_Witness ==
    /\ ToolEnded
    /\ call.op = "delete_issue"
    /\ outcome.status = 404
    /\ outcome.text = ""
    /\ HasField(result, "error")
    /\ result.d.details = Str("")

---------------------------------------------------------------------------
(* Success bodies and status classes *)

\* the remote answered with a 2xx status
AnsweredSuccess == Answered /\ outcome.status >= 200 /\ outcome.status < 300

\* the result hands the text on: it is the text, or a dict with the text in a field
CarriesText(r, text) ==
    \/ r.kind = "value" /\ r.val = Str(text)
    \/ r.kind = "dict" /\ \E k \in DOMAIN r.d : r.d[k] = Str(text)

\* C11: when the remote answers a JSON-returning tool with a success status and a
\* body that does not parse as JSON, the tool returns the raw text, or an error
\* result that carries it; it neither raises nor drops the body.
C11_DecodeFailureKeepsText ==
    (ToolEnded /\ AnsweredSuccess /\ DecodesBody(call.op, outcome.status)
       /\ outcome.text # "" /\ ~response_json(outcome).ok) =>
        /\ result.kind # "raise"
        /\ CarriesText(result, outcome.text)

\* C12: every answer whose status is outside 2xx and is not one the tool tests
\* for as a success is an application failure: the result is an error result
\* whose details carries the response body, so no 1xx or 3xx answer goes down
\* the success path.
C12_NonSuccessIsApplicationFailure ==
    (ToolEnded /\ Answered /\ ~AnsweredSuccess
       /\ outcome.status \notin ExplicitSuccess(call.op, call.args)) =>
        /\ HasField(result, "error")
        /\ HasField(result, "details")
        /\ result.d.details \in {Str(outcome.text), response_json(outcome).val}

\* the tools that create a resource with a POST
CreateOps == {"gitlab_create_branch", "create_gitlab_merge_request_todo",
              "cherry_pick_gitlab_commit", "create_repository",
              "set_gitlab_commit_pipeline_status"}

\* C13: when the remote answers a create-type tool with 201 and a body that
\* decodes, the result is the decoded body itself: nothing is added to it, in
\* particular no `error` key.
C13_CreatedBodyReturned ==
    (ToolEnded /\ call.op \in CreateOps /\ Answered /\ outcome.status = 201
       /\ response_json(outcome).ok) =>
        result = ReturnValue(response_json(outcome).val)

\* C13 witness: gitlab_create_branch was answered 201 with a JSON object and
\* returned the decoded object.
C13_Witness ==
    /\ ToolEnded
    /\ call.op = "gitlab_create_branch"
    /\ outcome.status = 201
    /\ outcome.text = BodyResource
    /\ result.kind = "value"
    /\ result.val = Dict({<<"id", "int", "7">>, <<"name", "str", "demo">>})

\* the tools that delete a resource with a DELETE
DeleteOps == {"delete_issue", "delete_project", "gitlab_delete_branch",
              "delete_gitlab_file", "delete_gitlab_merge_request"}

\* C14: when the remote answers a delete-type tool with 204 and an empty body,
\* the tool returns a confirmation it built itself, which is not None, and does
\* not try to decode the body (which would end in an error result).
C14_DeleteConfirmed ==
    (ToolEnded /\ call.op \in DeleteOps /\ Answered /\ outcome.status = 204
       /\ outcome.text = "") =>
        /\ result.kind \in {"dict", "value"}
        /\ result # ReturnValue(None)
        /\ ~HasErrorKey(result)

---------------------------------------------------------------------------
(* Calls in sequence *)

\* the request a tool builds from the store and its arguments
BuildRequest(op, a, c) ==
    CASE op = "gitlab_list_branches" -> gitlab_list_branches_request(c, a)
      [] op = "delete_issue" -> delete_issue_request(c, a)
      [] op = "get_gitlab_commit_signature" -> get_gitlab_commit_signature_request(c, a)
      [] op = "cherry_pick_gitlab_commit" -> cherry_pick_gitlab_commit_request(c, a)
      [] op = "import_project_members" -> import_project_members_request(c, a)
      [] op = "delete_project" -> delete_project_request(c, a)
      [] op = "download_project_avatar" -> download_project_avatar_request(c, a)
      [] op = "subscribe_to_gitlab_merge_request" ->
            subscribe_to_gitlab_merge_request_request(c, a)
      [] op = "update_gitlab_approval_configuration" ->
            update_gitlab_approval_configuration_request(c, a)
      [] op = "create_repository" -> create_repository_request(c, a)
      [] op = "gitlab_create_branch" -> gitlab_create_branch_request(c, a)
      [] op = "gitlab_delete_branch" -> gitlab_delete_branch_request(c, a)
      [] op = "delete_gitlab_file" -> delete_gitlab_file_request(c, a)
      [] op = "delete_gitlab_merge_request" -> delete_gitlab_merge_request_request(c, a)
      [] op = "create_gitlab_merge_request_todo" ->
            create_gitlab_merge_request_todo_request(c, a)
      [] op = "edit_issue" -> edit_issue_request(c, a)
      [] op = "get_gitlab_merge_base" -> get_gitlab_merge_base_request(c, a)
      [] op = "get_raw_gitlab_blob" -> get_raw_gitlab_blob_request(c, a)
      [] op = "list_issues" -> list_issues_request(c, a)
      [] op = "set_gitlab_commit_pipeline_status" ->
            set_gitlab_commit_pipeline_status_request(c, a)
      [] op = "update_gitlab_submodule_reference" ->
            update_gitlab_submodule_reference_request(c, a)
      [] op = "subscribe_to_issue" -> subscribe_to_issue_request(c, a)
      [] op = "unsubscribe_from_issue" -> unsubscribe_from_issue_request(c, a)
      [] op = "create_todo_on_issue" -> create_todo_on_issue_request(c, a)
      [] op = "unsubscribe_from_gitlab_merge_request" ->
            unsubscribe_from_gitlab_merge_request_request(c, a)

Credential(req) ==
    IF \E h \in req.headers : h[1] = "PRIVATE-TOKEN"
    THEN (CHOOSE h \in req.headers : h[1] = "PRIVATE-TOKEN")[2]
    ELSE ""

EndsBeforeRequest(op, a) ==
    \/ op = "update_gitlab_approval_configuration" /\ approval_payload(a) = {}
    \/ op = "edit_issue" /\ edit_issue_data(a) = {}
    \/ op = "get_gitlab_merge_base" /\ Cardinality(a.refs.m) < 2
    \/ op = "create_repository" /\ create_repository_early(a) # Pending

---------------------------------------------------------------------------
(* Waiting for the remote *)

\* the remote's answer, or the transport's failure, reaches the blocked handler:
\* requests.delete and requests.get are called without a timeout, so nothing in
\* the process brings this step about
Answer ==
    \E o \in Outcomes :
        /\ pc = "waiting"
        /\ pc' = "answered"
        /\ outcome' = o
        /\ UNCHANGED <<config, call, request, result, repeated, emptyTokenConfigured, threads>>

\* the handler runs from the return of its HTTP call to its own return
Finish ==
    /\ pc = "answered"
    /\ pc' = "idle"
    /\ result' = Handle(call.op, call.args, outcome)
    /\ UNCHANGED <<config, call, request, outcome, repeated, emptyTokenConfigured, threads>>

LiveNext ==
    \/ DeleteIssue
    \/ GetRawGitlabBlob
    \/ Answer
    \/ Finish

\* the handler's own steps are taken once they can be; the remote owes no answer
LiveSpec == Init /\ [][LiveNext]_vars /\ WF_vars(Finish)

\* C18: every tool call eventually returns: when the remote never answers, the
\* ceiling on the request's duration ends the call as a transport failure.
C18_EveryCallReturns ==
    (pc = "waiting") ~> (pc = "idle")

---------------------------------------------------------------------------
(* set_gitlab_config running at the same time as a tool call *)

\* the one call of gitlab_list_branches that runs beside set_gitlab_config
ConcurrentListArgs == [project_id |-> Int("7"), regex |-> None, search |-> None]

\* set_gitlab_config is entered with its two arguments
SetBegin ==
    \E a \in SetArgs :
        /\ threads.writer.pc = "idle"
        /\ threads' = [threads EXCEPT !.writer = [pc |-> "api_url", api_url |-> a.api_url,
                                                  token |-> a.token, before |-> config]]
        /\ UNCHANGED <<config, call, request, outcome, result, pc, repeated,
                       emptyTokenConfigured>>

\* a set_gitlab_config that would store both fields in one step
SetApiUrl_both_fields ==
    /\ threads.writer.pc = "api_url"
    /\ config' = set_gitlab_config(config, threads.writer.api_url, threads.writer.token)
    /\ threads' = [threads EXCEPT !.writer.pc = "token"]
    /\ UNCHANGED <<call, request, outcome, result, pc, repeated, emptyTokenConfigured>>

\* `if api_url: _config["api_url"] = api_url`
SetApiUrl ==
    /\ threads.writer.pc = "api_url"
    /\ config' = IF Truthy(threads.writer.api_url)
                 THEN [config EXCEPT !.api_url = threads.writer.api_url.v]
                 ELSE config
    /\ threads' = [threads EXCEPT !.writer.pc = "token"]
    /\ UNCHANGED <<call, request, outcome, result, pc, repeated, emptyTokenConfigured>>

\* `if token: _config["token"] = token`
SetToken ==
    /\ threads.writer.pc = "token"
    /\ config' = IF Truthy(threads.writer.token)
                 THEN [config EXCEPT !.token = threads.writer.token.v]
                 ELSE config
    /\ threads' = [threads EXCEPT !.writer.pc = "done"]
    /\ UNCHANGED <<call, request, outcome, result, pc, repeated, emptyTokenConfigured>>

\* gitlab_list_branches builds its URL: its call of get_gitlab_api()
ReadApiUrl ==
    /\ threads.reader.pc = "idle"
    /\ threads' = [threads EXCEPT !.reader = [pc |-> "token",
                                              api_url |-> get_gitlab_api(config)]]
    /\ UNCHANGED <<config, call, request, outcome, result, pc, repeated,
                   emptyTokenConfigured>>

\* gitlab_list_branches builds its headers: its call of get_gitlab_token()
ReadToken ==
    /\ threads.reader.pc = "token"
    /\ request' = gitlab_list_branches_request(
                      [api_url |-> threads.reader.api_url, token |-> get_gitlab_token(config)],
                      ConcurrentListArgs)
    /\ threads' = [threads EXCEPT !.reader.pc = "built"]
    /\ UNCHANGED <<config, call, outcome, result, pc, repeated, emptyTokenConfigured>>

\* both calls are over
BothReturn ==
    /\ threads.writer.pc = "done"
    /\ threads.reader.pc = "built"
    /\ threads' = NoThreads
    /\ request' = NoRequest
    /\ UNCHANGED <<config, call, outcome, result, pc, repeated, emptyTokenConfigured>>

ConcNext ==
    \/ SetBegin
    \/ SetApiUrl
    \/ SetToken
    \/ ReadApiUrl
    \/ ReadToken
    \/ BothReturn

ConcSpec == Init /\ [][ConcNext]_vars

\* C19: the store is written field by field, with no lock: no step of
\* set_gitlab_config changes both fields, so a tool call that runs beside it can
\* build its request from one new field and one old field.
C19_StoreWrittenFieldByField ==
    [][config'.api_url = config.api_url \/ config'.token = config.token]_vars

\* C19 witness: a torn read. set_gitlab_config(new_url, new_token) replaces a
\* stored url and a stored token, and the request gitlab_list_branches built
\* beside it has the new url with the old token, or the old url with the new
\* token.
C19_Witness ==
    LET w == threads.writer
    IN /\ threads.reader.pc = "built"
       /\ w.pc # "idle"
       /\ Provided(w.api_url) /\ Provided(w.token)
       /\ w.before.api_url \notin {"", w.api_url.v}
       /\ w.before.token \notin {"", w.token.v}
       /\ \/ /\ request.url = w.api_url.v \o "/projects/7/repository/branches"
             /\ Credential(request) = w.before.token
          \/ /\ request.url = w.before.api_url \o "/projects/7/repository/branches"
             /\ Credential(request) = w.token.v

---------------------------------------------------------------------------
(* The authentication header *)

\* C20: the headers of every request a tool sends contain PRIVATE-TOKEN if and
\* only if the stored token is non-empty; with an empty token the header is
\* absent, not sent with an empty value.
C20_TokenHeaderIffToken ==
    (call.op \in ToolOps /\ request.sent) =>
        ((\E h \in request.headers : h[1] = "PRIVATE-TOKEN") <=> config.token # "")

---------------------------------------------------------------------------
(* What a request carries of the arguments *)

\* the optional arguments a tool sends, under the keys it sends them with: the
\* parameters of its signature whose default is None
OptionalArguments(op, a) ==
    CASE op = "gitlab_list_branches" -> [regex |-> a.regex, search |-> a.search]
      [] op = "cherry_pick_gitlab_commit" -> [dry_run |-> a.dry_run, message |-> a.message]
      [] op = "delete_project" ->
            [full_path |-> a.full_path, permanently_remove |-> a.permanently_remove]
      [] op = "update_gitlab_approval_configuration" -> a.options
      [] op = "create_repository" -> [description |-> Bind(a.description, None)]
      [] op = "delete_gitlab_file" -> [last_commit_id |-> a.last_commit_id]
      [] op = "edit_issue" -> a.edits
      [] op = "list_issues" -> a
      [] op = "set_gitlab_commit_pipeline_status" -> [name |-> a.name, context |-> a.context]
      [] op = "update_gitlab_submodule_reference" -> [commit_message |-> a.commit_message]
      [] OTHER -> <<>>

\* the query parameters and the body fields of a request
Fields(req) == req.params \cup req.body

C22_FalsyArgumentsSent ==
    (call.op \in ToolOps /\ request.sent) =>
        LET opt == OptionalArguments(call.op, call.args)
        IN \A k \in DOMAIN opt :
               (opt[k] # None /\ ~Truthy(opt[k])) =>
                   \E kv \in Fields(request) : kv[1] = k

\* what requests writes into the query string for a parameter value: the string
\* itself, and str() of a value that is no string
QueryValue(x) ==
    CASE x.ty = "bool" -> IF x = Bool(TRUE) THEN "True" ELSE "False"
      [] OTHER -> x.v

\* C23: a boolean argument that goes into the query string is written there as
\* "true" or "false", and one that goes into a JSON body is a JSON boolean there,
\* not a string.
C23_BooleanDualEncoding ==
    (call.op \in ToolOps /\ request.sent) =>
        LET opt == OptionalArguments(call.op, call.args)
        IN \A k \in DOMAIN opt :
               opt[k].ty = "bool" =>
                   /\ \A kv \in request.params :
                          kv[1] = k => QueryValue(kv[2]) \in {"true", "false"}
                   /\ \A kv \in request.body :
                          (kv[1] = k /\ request.enc = "json") => kv[2].ty = "bool"

\* C24: of a pair of parameters of which the remote takes one (name before
\* context in set_gitlab_commit_pipeline_status, regex before search in
\* gitlab_list_branches), the request carries the first when it was supplied,
\* else the second when that was supplied, else neither; never both.
C24_AliasPriority ==
    (request.sent /\ call.op \in {"set_gitlab_commit_pipeline_status", "gitlab_list_branches"}) =>
        LET pair == IF call.op = "gitlab_list_branches"
                    THEN <<"regex", "search">> ELSE <<"name", "context">>
            opt == OptionalArguments(call.op, call.args)
            sent == {kv \in Fields(request) : kv[1] \in {pair[1], pair[2]}}
        IN sent = IF opt[pair[1]] # None THEN {<<pair[1], opt[pair[1]]>>}
                  ELSE IF opt[pair[2]] # None THEN {<<pair[2], opt[pair[2]]>>}
                  ELSE {}

\* percent-decoding of a URL path segment, as the remote reads it: a %XX becomes
\* its character, every other character, "+" too, stands for itself
PercentDecode(segment) ==
    [i \in 1..Len(segment) |->
        CASE segment[i] = "%2F" -> "/"
          [] segment[i] = "%2B" -> "+"
          [] segment[i] = "%25" -> "%"
          [] segment[i] = "%20" -> " "
          [] OTHER -> segment[i]]

\* C25: the free-form path a tool inserts into its URL (file_path in the file
\* tools, submodule_path in update_gitlab_submodule_reference) is there as one
\* percent-encoded path segment: it holds no raw "/", and percent-decoding it
\* gives the path back, "/" and space included.
C25_PathIsOneEncodedSegment ==
    (request.sent /\ call.op \in {"delete_gitlab_file", "update_gitlab_submodule_reference"}) =>
        LET file == call.op = "delete_gitlab_file"
            path == IF file THEN call.args.file_path ELSE call.args.submodule_path
            segment == IF file THEN quote_plus(path) ELSE path
        IN /\ request.url = get_gitlab_api(config) \o "/projects/" \o Fmt(call.args.project_id)
                                \o (IF file THEN "/repository/files/"
                                    ELSE "/repository/submodules/")
                                \o Join(segment)
           /\ \A i \in 1..Len(segment) : segment[i] # "/"
           /\ PercentDecode(segment) = path

---------------------------------------------------------------------------
(* Not modified *)

\* the tools that subscribe, unsubscribe or create a to-do item, on an issue or
\* on a merge request
NotModifiedOps == {"subscribe_to_issue", "unsubscribe_from_issue", "create_todo_on_issue",
                   "subscribe_to_gitlab_merge_request",
                   "unsubscribe_from_gitlab_merge_request",
                   "create_gitlab_merge_request_todo"}

\* C26: a subscribe, unsubscribe or to-do tool that is answered 304 returns a
\* dict that says "not modified" and has no `error` key, whatever the body; the
\* same tool answered with a 4xx or 5xx status returns a result with an `error` key.
C26_NotModifiedIsSuccess ==
    (ToolEnded /\ call.op \in NotModifiedOps /\ Answered) =>
        /\ outcome.status = 304 =>
              /\ result.kind = "dict"
              /\ "error" \notin DOMAIN result.d
              /\ "status" \in DOMAIN result.d
              /\ result.d.status \in {Str("Not Modified"), Str("not_modified")}
        /\ AnsweredError => HasErrorKey(result)

\* C26 witness: subscribe_to_issue was answered 304 with an empty body and
\* returned its not_modified dict.
C26_Witness ==
    /\ ToolEnded
    /\ call.op = "subscribe_to_issue"
    /\ outcome.status = 304
    /\ outcome.text = ""
    /\ result.kind = "dict"
    /\ result.d.status = Str("not_modified")

----------------------------------------------------------------------------
(* The store once it is configured *)

\* C27: no step empties a stored field, so once is_configured() is true it is
\* true after every further call of set_gitlab_config, configure_gitlab,
\* check_gitlab_config or a tool.
C27_ConfiguredStaysConfigured ==
    [][/\ config.api_url # "" => config'.api_url # ""
       /\ config.token # "" => config'.token # ""
       /\ is_configured(config) => is_configured(config')]_vars

\* C27 witness: set_gitlab_config was called with two empty strings on a
\* configured store, and the store is still configured.
C27_Witness ==
    /\ call.op = "set_gitlab_config"
    /\ call.args = [api_url |-> Str(""), token |-> Str("")]
    /\ is_configured(config)

\* C28: configure_gitlab called with a token and without an api_url leaves a
\* stored, non-empty api_url as it was.
C28_OmittedApiUrlKept ==
    [][(/\ call'.op = "configure_gitlab"
        /\ Provided(call'.args.token)
        /\ call'.args.api_url = Absent
        /\ config.api_url # "") => config'.api_url = config.api_url]_vars

\* C29: when configure_gitlab has returned status "configured", is_configured()
\* is true, the stored token is the token passed, and the api_url of the
\* returned dict is the stored api_url.
C29_ConfiguredResultMatchesStore ==
    (call.op = "configure_gitlab" /\ HasField(result, "status")) =>
        /\ result.d.status = Str("configured")
        /\ is_configured(config)
        /\ Str(config.token) = call.args.token
        /\ result.d.api_url = Str(config.api_url)

=============================================================================
